---- MODULE Spec2Model ----
(***************************************************************************)
(* Model of the Cloudflare AutoRAG MCP server (src/src/server.ts): the     *)
(* JSON-RPC dispatcher WorkersMcpServer.handleRequest, the tool registry   *)
(* built by createServer, the three tool handlers and the fetch entry      *)
(* point that serves one request body with a freshly built server.         *)
(*                                                                         *)
(* JavaScript values are tagged records.  Strings are TLA+ strings, so     *)
(* template literals are concatenations and JSON.stringify / JSON.parse    *)
(* work on the characters of the text.  Numbers are carried as their       *)
(* decimal literal (the program does no arithmetic on them).  Objects are  *)
(* sequences of <<key, value>> pairs in insertion order.                   *)
(***************************************************************************)
EXTENDS Integers, Sequences, FiniteSets, TLC

(***************************************************************************)
(* JavaScript values                                                       *)
(***************************************************************************)
Undefined == [type |-> "undefined"]
JNull == [type |-> "null"]
JBool(b) == [type |-> "boolean", b |-> b]
JNum(lit) == [type |-> "number", n |-> lit]
JStr(s) == [type |-> "string", s |-> s]
JArr(items) == [type |-> "array", items |-> items]
JObj(fields) == [type |-> "object", fields |-> fields]
JError(msg) == [type |-> "error", message |-> msg]

\* Property read o[k] / o.k on a value that is neither null nor undefined:
\* own properties of objects, undefined on primitives and on missing keys.
Get(o, k) ==
    IF o.type = "object" /\ \E i \in 1..Len(o.fields) : o.fields[i][1] = k
    THEN LET i == CHOOSE i \in 1..Len(o.fields) : o.fields[i][1] = k
         IN  o.fields[i][2]
    ELSE Undefined

Has(o, k) == o.type = "object" /\ \E i \in 1..Len(o.fields) : o.fields[i][1] = k

\* A property definition in an object literal: a key that is already there
\* keeps its position and takes the new value, a new key is appended.
SetField(fields, k, v) ==
    IF \E i \in 1..Len(fields) : fields[i][1] = k
    THEN [i \in 1..Len(fields) |-> IF fields[i][1] = k THEN <<k, v>> ELSE fields[i]]
    ELSE Append(fields, <<k, v>>)

\* ToBoolean
Truthy(v) ==
    CASE v.type = "undefined" -> FALSE
      [] v.type = "null"      -> FALSE
      [] v.type = "boolean"   -> v.b
      [] v.type = "number"    -> v.n \notin {"0", "-0"}
      [] v.type = "string"    -> v.s # ""
      [] OTHER                -> TRUE

\* a ?? b
Coalesce(a, b) == IF a.type \in {"undefined", "null"} THEN b ELSE a

\* a || b
OrElse(a, b) == IF Truthy(a) THEN a ELSE b

\* String(v), as a template literal `${v}` computes it for the values the
\* dispatcher interpolates.
ToStr(v) ==
    CASE v.type = "string"    -> v.s
      [] v.type = "undefined" -> "undefined"
      [] v.type = "null"      -> "null"
      [] v.type = "boolean"   -> IF v.b THEN "true" ELSE "false"
      [] v.type = "number"    -> v.n
      [] v.type = "array"     -> ""
      [] OTHER                -> "[object Object]"

Ch(s, i) == SubSeq(s, i, i)

\* s contains t as a substring
Contains(s, t) ==
    \E i \in 1..(Len(s) - Len(t) + 1) : SubSeq(s, i, i + Len(t) - 1) = t

(***************************************************************************)
(* JSON.stringify(value, null, 2)                                          *)
(***************************************************************************)
Escaped == {"\"", "\\", "\n"}

RECURSIVE QuoteRange(_, _, _)
\* QuoteJSONString without the surrounding quotes, for the characters
\* lo..hi of s: the three characters the model's strings can hold that JSON
\* escapes are escaped, every other character is copied.
QuoteRange(s, lo, hi) ==
    IF lo > hi THEN ""
    ELSE IF \A i \in lo..hi : Ch(s, i) \notin Escaped THEN SubSeq(s, lo, hi)
    ELSE IF lo = hi
         THEN CASE Ch(s, lo) = "\"" -> "\\\""
                [] Ch(s, lo) = "\\" -> "\\\\"
                [] OTHER            -> "\\n"
    ELSE LET mid == (lo + hi) \div 2
         IN  QuoteRange(s, lo, mid) \o QuoteRange(s, mid + 1, hi)

Quote(s) == "\"" \o QuoteRange(s, 1, Len(s)) \o "\""

\* The properties JSON.stringify writes: those whose value is not undefined.
Serializable(fields) == SelectSeq(fields, LAMBDA p : p[2].type # "undefined")

RECURSIVE Ser(_, _, _), SerItems(_, _, _, _), SerMembers(_, _, _, _)
\* SerializeJSONProperty for a value that is not undefined; ind is the
\* current indentation and gap the indentation unit ("" writes no line
\* breaks and no space after the colon).
Ser(v, ind, gap) ==
    LET inner == ind \o gap
        open  == IF gap = "" THEN "" ELSE "\n"
        close == IF gap = "" THEN "" ELSE "\n" \o ind
    IN  CASE v.type = "null"    -> "null"
          [] v.type = "boolean" -> IF v.b THEN "true" ELSE "false"
          [] v.type = "number"  -> v.n
          [] v.type = "string"  -> Quote(v.s)
          [] v.type = "array"   ->
                IF v.items = <<>> THEN "[]"
                ELSE "[" \o open \o SerItems(v.items, 1, inner, gap) \o close \o "]"
          [] v.type = "object"  ->
                LET ps == Serializable(v.fields)
                IN  IF ps = <<>> THEN "{}"
                    ELSE "{" \o open \o SerMembers(ps, 1, inner, gap) \o close \o "}"
          [] OTHER -> "{}"

\* Array elements: an undefined element is written as null.
SerItems(items, i, ind, gap) ==
    ind \o (IF items[i].type = "undefined" THEN "null" ELSE Ser(items[i], ind, gap))
        \o (IF i < Len(items)
            THEN "," \o (IF gap = "" THEN "" ELSE "\n") \o SerItems(items, i + 1, ind, gap)
            ELSE "")

SerMembers(ps, i, ind, gap) ==
    ind \o Quote(ps[i][1]) \o (IF gap = "" THEN ":" ELSE ": ") \o Ser(ps[i][2], ind, gap)
        \o (IF i < Len(ps)
            THEN "," \o (IF gap = "" THEN "" ELSE "\n") \o SerMembers(ps, i + 1, ind, gap)
            ELSE "")

\* JSON.stringify(v, null, 2): undefined for undefined, else the text.
JSONStringify2(v) == IF v.type = "undefined" THEN Undefined ELSE JStr(Ser(v, "", "  "))

\* JSON.stringify(v)
JSONStringify(v) == IF v.type = "undefined" THEN Undefined ELSE JStr(Ser(v, "", ""))

(***************************************************************************)
(* JSON.parse, used to state what a client reading the payload sees        *)
(***************************************************************************)
Fail == [ok |-> FALSE, val |-> JNull, pos |-> 0]
Ok(v, p) == [ok |-> TRUE, val |-> v, pos |-> p]

Whitespace == {" ", "\n", "\t", "\r"}
Digits == {"0", "1", "2", "3", "4", "5", "6", "7", "8", "9"}

RECURSIVE SkipWs(_, _)
SkipWs(s, i) == IF i <= Len(s) /\ Ch(s, i) \in Whitespace THEN SkipWs(s, i + 1) ELSE i

RECURSIVE SkipDigits(_, _)
SkipDigits(s, i) == IF i <= Len(s) /\ Ch(s, i) \in Digits THEN SkipDigits(s, i + 1) ELSE i

\* -? digits (. digits)?
ParseNumber(s, i) ==
    LET a == IF i <= Len(s) /\ Ch(s, i) = "-" THEN i + 1 ELSE i
        b == SkipDigits(s, a)
        c == IF b <= Len(s) /\ Ch(s, b) = "." THEN SkipDigits(s, b + 1) ELSE b
    IN  IF b = a \/ (c # b /\ c = b + 1) THEN Fail
        ELSE Ok(JNum(SubSeq(s, i, c - 1)), c)

RECURSIVE ParseString(_, _, _)
\* The characters after an opening quote, up to the closing one: the run
\* of plain characters up to the next quote, backslash or line break is
\* copied, then that character decides.
ParseString(s, i, acc) ==
    IF \A j \in i..Len(s) : Ch(s, j) \notin Escaped THEN Fail
    ELSE LET j == CHOOSE j \in i..Len(s) :
                      /\ Ch(s, j) \in Escaped
                      /\ \A k \in i..(j - 1) : Ch(s, k) \notin Escaped
             c == Ch(s, j)
             run == acc \o SubSeq(s, i, j - 1)
         IN  CASE c = "\"" -> Ok(JStr(run), j + 1)
               [] c = "\n" -> Fail
               [] OTHER ->
                    IF j + 1 > Len(s) THEN Fail
                    ELSE LET d == Ch(s, j + 1)
                         IN  CASE d = "\"" -> ParseString(s, j + 2, run \o "\"")
                               [] d = "\\" -> ParseString(s, j + 2, run \o "\\")
                               [] d = "n"  -> ParseString(s, j + 2, run \o "\n")
                               [] OTHER    -> Fail

Literal(s, i, word) == i + Len(word) - 1 <= Len(s) /\ SubSeq(s, i, i + Len(word) - 1) = word

RECURSIVE ParseValue(_, _), ParseElements(_, _, _), ParseMembers(_, _, _)
ParseValue(s, i) ==
    LET j == SkipWs(s, i)
    IN  IF j > Len(s) THEN Fail
        ELSE LET c == Ch(s, j)
             IN  CASE c = "{" ->
                        LET k == SkipWs(s, j + 1)
                        IN  IF k <= Len(s) /\ Ch(s, k) = "}" THEN Ok(JObj(<<>>), k + 1)
                            ELSE ParseMembers(s, k, <<>>)
                   [] c = "[" ->
                        LET k == SkipWs(s, j + 1)
                        IN  IF k <= Len(s) /\ Ch(s, k) = "]" THEN Ok(JArr(<<>>), k + 1)
                            ELSE ParseElements(s, k, <<>>)
                   [] c = "\"" -> ParseString(s, j + 1, "")
                   [] Literal(s, j, "true")  -> Ok(JBool(TRUE), j + 4)
                   [] Literal(s, j, "false") -> Ok(JBool(FALSE), j + 5)
                   [] Literal(s, j, "null")  -> Ok(JNull, j + 4)
                   [] OTHER -> ParseNumber(s, j)

\* One element, then either a comma and more elements or the closing bracket.
ParseElements(s, i, acc) ==
    LET r == ParseValue(s, i)
    IN  IF ~r.ok THEN Fail
        ELSE LET k == SkipWs(s, r.pos)
                 acc2 == Append(acc, r.val)
             IN  IF k > Len(s) THEN Fail
                 ELSE IF Ch(s, k) = "," THEN ParseElements(s, k + 1, acc2)
                 ELSE IF Ch(s, k) = "]" THEN Ok(JArr(acc2), k + 1)
                 ELSE Fail

\* One "key": value member, then a comma and more members or the closing brace.
ParseMembers(s, i, acc) ==
    LET j == SkipWs(s, i)
    IN  IF j > Len(s) \/ Ch(s, j) # "\"" THEN Fail
        ELSE LET key == ParseString(s, j + 1, "")
             IN  IF ~key.ok THEN Fail
                 ELSE LET c == SkipWs(s, key.pos)
                      IN  IF c > Len(s) \/ Ch(s, c) # ":" THEN Fail
                          ELSE LET r == ParseValue(s, c + 1)
                               IN  IF ~r.ok THEN Fail
                                   ELSE LET k == SkipWs(s, r.pos)
                                            acc2 == SetField(acc, key.val.s, r.val)
                                        IN  IF k > Len(s) THEN Fail
                                            ELSE IF Ch(s, k) = "," THEN ParseMembers(s, k + 1, acc2)
                                            ELSE IF Ch(s, k) = "}" THEN Ok(JObj(acc2), k + 1)
                                            ELSE Fail

\* JSON.parse(text): the whole text must be one value.
JSONParse(text) ==
    LET r == ParseValue(text, 1)
    IN  IF r.ok /\ SkipWs(text, r.pos) > Len(text) THEN r ELSE Fail

\* JSON.parse(v) succeeds
Parseable(v) == v.type = "string" /\ JSONParse(v.s).ok

(***************************************************************************)
(* Parameter-shape descriptors (zod) and zodToJsonSchema                   *)
(***************************************************************************)
ZType(kind) ==
    [kind |-> kind, description |-> Undefined, shape |-> <<>>, inner |-> <<>>, options |-> <<>>]
ZString == ZType("string")
ZNumber == ZType("number")
ZBoolean == ZType("boolean")
ZRecord == ZType("record")
ZAny == ZType("any")
ZObject(shape) == [ZType("object") EXCEPT !.shape = shape]
ZUnion(options) == [ZType("union") EXCEPT !.options = options]
\* schema.optional(): the wrapper is created with the description the inner
\* schema has at that moment.
Optional(schema) ==
    [ZType("optional") EXCEPT !.inner = <<schema>>, !.description = schema.description]
\* schema.describe(text): a copy of the schema itself carrying the text.
Describe(schema, text) == [schema EXCEPT !.description = JStr(text)]

TypeAndDescription(t, d) == JObj(<< <<"type", JStr(t)>>, <<"description", d>> >>)

RECURSIVE zodToJsonSchema(_), CompileFields(_, _, _, _)
zodToJsonSchema(schema) ==
    CASE schema.kind = "union" ->
            JObj(<< <<"oneOf",
                      JArr([i \in 1..Len(schema.options) |-> zodToJsonSchema(schema.options[i])])>> >>)
      [] schema.kind = "object" ->
            LET c == CompileFields(schema.shape, 1, <<>>, <<>>)
            IN  JObj(<< <<"type", JStr("object")>>,
                        <<"properties", JObj(c.properties)>>,
                        <<"required", JArr(c.required)>> >>)
      [] schema.kind = "string"  -> TypeAndDescription("string", schema.description)
      [] schema.kind = "number"  -> TypeAndDescription("number", schema.description)
      [] schema.kind = "boolean" -> TypeAndDescription("boolean", schema.description)
      [] OTHER -> JObj(<< <<"type", JStr("object")>> >>)

\* The loop over Object.entries(shape), from entry i on.
CompileFields(shape, i, properties, required) ==
    IF i > Len(shape) THEN [properties |-> properties, required |-> required]
    ELSE LET key == shape[i][1]
             value == shape[i][2]
             req == Append(required, JStr(key))
         IN  CASE value.kind = "string" ->
                    CompileFields(shape, i + 1,
                        SetField(properties, key, TypeAndDescription("string", value.description)), req)
               [] value.kind = "number" ->
                    CompileFields(shape, i + 1,
                        SetField(properties, key, TypeAndDescription("number", value.description)), req)
               [] value.kind = "boolean" ->
                    CompileFields(shape, i + 1,
                        SetField(properties, key, TypeAndDescription("boolean", value.description)), req)
               [] value.kind = "record" ->
                    CompileFields(shape, i + 1,
                        SetField(properties, key, TypeAndDescription("object", value.description)), req)
               [] value.kind = "object" ->
                    CompileFields(shape, i + 1,
                        SetField(properties, key, zodToJsonSchema(value)), req)
               [] value.kind = "optional" ->
                    LET innerType == value.inner[1]
                    IN  CASE innerType.kind = "string" ->
                               CompileFields(shape, i + 1, SetField(properties, key,
                                   TypeAndDescription("string", innerType.description)), required)
                          [] innerType.kind = "number" ->
                               CompileFields(shape, i + 1, SetField(properties, key,
                                   TypeAndDescription("number", innerType.description)), required)
                          [] innerType.kind = "boolean" ->
                               CompileFields(shape, i + 1, SetField(properties, key,
                                   TypeAndDescription("boolean", innerType.description)), required)
                          [] innerType.kind = "record" ->
                               CompileFields(shape, i + 1, SetField(properties, key,
                                   TypeAndDescription("object", innerType.description)), required)
                          [] innerType.kind = "object" ->
                               CompileFields(shape, i + 1, SetField(properties, key,
                                   zodToJsonSchema(innerType)), required)
                          [] OTHER -> CompileFields(shape, i + 1, properties, required)
               [] OTHER -> CompileFields(shape, i + 1, properties, required)

(***************************************************************************)
(* The tool registry                                                       *)
(***************************************************************************)
\* Variant of addTool: every registration adds an entry.
addToolAppend(registry, name, description, inputSchema, handler) ==
    Append(registry, [name |-> name, description |-> description,
                      inputSchema |-> zodToJsonSchema(inputSchema), handler |-> handler])

\* this.tools.set(name, {description, inputSchema, handler}): a Map keeps a
\* key at the position of its first insertion.
addTool(registry, name, description, inputSchema, handler) ==
    LET entry == [name |-> name, description |-> description,
                  inputSchema |-> zodToJsonSchema(inputSchema), handler |-> handler]
    IN  IF \E i \in 1..Len(registry) : registry[i].name = name
        THEN [i \in 1..Len(registry) |-> IF registry[i].name = name THEN entry ELSE registry[i]]
        ELSE Append(registry, entry)

\* this.tools.get(name): the entry as a one-element sequence, <<>> if none.
\* Keys are strings; a name that is not a string matches none of them.
Lookup(registry, name) ==
    SelectSeq(registry, LAMBDA e : name.type = "string" /\ e.name = name.s)

ScoreThresholdDoc == "Minimum similarity score threshold (0.0 to 1.0, default: 0.5)"
MaxNumResultsDoc == "Maximum number of results to return"

BasicSearchShape ==
    ZObject(<< <<"query", Describe(ZString, "The search query to find relevant documents")>>,
               <<"score_threshold", Describe(Optional(ZNumber), ScoreThresholdDoc)>>,
               <<"max_num_results", Describe(Optional(ZNumber), MaxNumResultsDoc)>> >>)

RewriteSearchShape ==
    ZObject(<< <<"query", Describe(ZString,
                   "The search query to find relevant documents with AI query rewriting")>>,
               <<"score_threshold", Describe(Optional(ZNumber), ScoreThresholdDoc)>>,
               <<"max_num_results", Describe(Optional(ZNumber), MaxNumResultsDoc)>>,
               <<"rewrite_query", Describe(Optional(ZBoolean),
                   "Whether to rewrite the query using AI (default: true)")>> >>)

AiSearchShape ==
    ZObject(<< <<"query", Describe(ZString,
                   "The search query to find relevant documents with AI query rewriting")>>,
               <<"score_threshold", Describe(Optional(ZNumber), ScoreThresholdDoc)>>,
               <<"max_num_results", Describe(Optional(ZNumber), MaxNumResultsDoc)>>,
               <<"rewrite_query", Describe(Optional(ZBoolean),
                   "Whether to rewrite the query for better semantic matching (default: true)")>>,
               <<"include_ai_response", Describe(Optional(ZBoolean),
                   "Whether to include the AI-generated response in the output (default: false)")>>,
               <<"cursor", Describe(Optional(ZString),
                   "Pagination cursor from previous response to fetch next page of results")>> >>)

serverInfo ==
    JObj(<< <<"name", JStr("cloudflare-autorag-mcp")>>, <<"version", JStr("1.2.0")>> >>)
capabilities == JObj(<< <<"tools", JObj(<<>>)>>, <<"logging", JObj(<<>>)>> >>)

\* The addTool calls of createServer, in order, each as the arguments of the
\* call: name, description, parameter shape and handler.
Registration(name, description, shape, handler) ==
    [name |-> name, description |-> description, shape |-> shape, handler |-> handler]

ToolDefinitions ==
    << Registration("autorag_basic_search",
           "Basic search for documents in Cloudflare AutoRAG without query rewriting or answer generation",
           BasicSearchShape, "basic"),
       Registration("autorag_rewrite_search",
           "Search for documents in Cloudflare AutoRAG with AI query rewriting but NO answer generation (returns document chunks only)",
           RewriteSearchShape, "rewrite"),
       Registration("autorag_ai_search",
           "Search documents in Cloudflare AutoRAG with AI query rewriting and optional AI-generated response. Returns document chunks and optionally AI answer.",
           AiSearchShape, "ai") >>

\* server.addTool(...) with the arguments r.
Register(registry, r) == addTool(registry, r.name, r.description, r.shape, r.handler)

\* The registry createServer returns: three addTool calls on an empty map.
createServer ==
    Register(Register(Register(<<>>, ToolDefinitions[1]), ToolDefinitions[2]),
             ToolDefinitions[3])

(***************************************************************************)
(* Exceptions                                                              *)
(***************************************************************************)
\* error instanceof Error ? error.message : String(error)
ErrorMessage(e) == IF e.type = "error" THEN e.message ELSE ToStr(e)

\* The TypeError of destructuring `{ prop, ... } = v` when v is undefined or null.
DestructureError(prop, what, v) ==
    JError("Cannot destructure property '" \o prop \o "' of '" \o what \o "' as it is "
           \o ToStr(v) \o ".")

\* The TypeError of reading v.prop when v is undefined or null.
ReadError(prop, v) ==
    JError("Cannot read properties of " \o ToStr(v) \o " (reading '" \o prop \o "')")

Nullish(v) == v.type \in {"undefined", "null"}

(***************************************************************************)
(* Tool handlers                                                           *)
(***************************************************************************)
DefaultScoreThreshold == JNum("0.5")

Content(text) ==
    JObj(<< <<"content",
              JArr(<< JObj(<< <<"type", JStr("text")>>, <<"text", text>> >>) >>)>> >>)

\* Variant of rankingOptions: the default replaces every falsy threshold.
rankingOptionsOrElse(score_threshold) ==
    JObj(<< <<"score_threshold", OrElse(score_threshold, DefaultScoreThreshold)>> >>)

rankingOptions(score_threshold) ==
    JObj(<< <<"score_threshold", Coalesce(score_threshold, DefaultScoreThreshold)>> >>)

\* if (v !== undefined) searchParams[k] = v
SetIfDefined(fields, k, v) == IF v.type # "undefined" THEN SetField(fields, k, v) ELSE fields

\* Variant of BasicSearchParams: the caller's cursor is passed on.
BasicSearchParamsWithCursor(args) ==
    JObj(SetIfDefined(
           SetIfDefined(
             << <<"query", Get(args, "query")>>,
                <<"rewrite_query", JBool(FALSE)>>,
                <<"ranking_options", rankingOptions(Get(args, "score_threshold"))>> >>,
             "max_num_results", Get(args, "max_num_results")),
           "cursor", Get(args, "cursor")))

\* Variant of BasicSearchParams: rewrite_query is the caller's, false by
\* default.
BasicSearchParamsCoalesce(args) ==
    JObj(SetIfDefined(
        << <<"query", Get(args, "query")>>,
           <<"rewrite_query", Coalesce(Get(args, "rewrite_query"), JBool(FALSE))>>,
           <<"ranking_options", rankingOptions(Get(args, "score_threshold"))>> >>,
        "max_num_results", Get(args, "max_num_results")))

BasicSearchParams(args) ==
    JObj(SetIfDefined(
        << <<"query", Get(args, "query")>>,
           <<"rewrite_query", JBool(FALSE)>>,
           <<"ranking_options", rankingOptions(Get(args, "score_threshold"))>> >>,
        "max_num_results", Get(args, "max_num_results")))

\* Variant of RewriteSearchParams: the default replaces every falsy
\* rewrite_query.
RewriteSearchParamsOrTrue(args) ==
    JObj(SetIfDefined(
        << <<"query", Get(args, "query")>>,
           <<"rewrite_query", OrElse(Get(args, "rewrite_query"), JBool(TRUE))>>,
           <<"ranking_options", rankingOptions(Get(args, "score_threshold"))>> >>,
        "max_num_results", Get(args, "max_num_results")))

RewriteSearchParams(args) ==
    JObj(SetIfDefined(
        << <<"query", Get(args, "query")>>,
           <<"rewrite_query", Coalesce(Get(args, "rewrite_query"), JBool(TRUE))>>,
           <<"ranking_options", rankingOptions(Get(args, "score_threshold"))>> >>,
        "max_num_results", Get(args, "max_num_results")))

\* Variant of AiSearchParams: only a truthy cursor is passed on.
AiSearchParamsTruthyCursor(args) ==
    LET cursor == Get(args, "cursor")
    IN  JObj(SetIfDefined(
               SetIfDefined(
                 << <<"query", Get(args, "query")>>,
                    <<"rewrite_query", Coalesce(Get(args, "rewrite_query"), JBool(TRUE))>>,
                    <<"ranking_options", rankingOptions(Get(args, "score_threshold"))>> >>,
                 "max_num_results", Get(args, "max_num_results")),
               "cursor", IF Truthy(cursor) THEN cursor ELSE Undefined))

AiSearchParams(args) ==
    JObj(SetIfDefined(
           SetIfDefined(
             << <<"query", Get(args, "query")>>,
                <<"rewrite_query", Coalesce(Get(args, "rewrite_query"), JBool(TRUE))>>,
                <<"ranking_options", rankingOptions(Get(args, "score_threshold"))>> >>,
             "max_num_results", Get(args, "max_num_results")),
           "cursor", Get(args, "cursor")))

NoCall == [op |-> "none", params |-> Undefined]

\* Variant of HandlerStart: arguments without a query are refused before
\* the backend is called.
HandlerStartValidates(handler, args) ==
    IF Nullish(args)
    THEN [kind |-> "reject", error |-> DestructureError("query", ToStr(args), args),
          call |-> NoCall]
    ELSE IF ~Has(args, "query")
    THEN [kind |-> "reject", error |-> JError("query is required"), call |-> NoCall]
    ELSE [kind |-> "call", error |-> Undefined,
          call |-> CASE handler = "basic"   -> [op |-> "search", params |-> BasicSearchParams(args)]
                     [] handler = "rewrite" -> [op |-> "search", params |-> RewriteSearchParams(args)]
                     [] handler = "ai"      -> [op |-> "aiSearch", params |-> AiSearchParams(args)]]

\* Variant of HandlerStart: autorag_rewrite_search calls aiSearch.
HandlerStartRewriteAi(handler, args) ==
    IF Nullish(args)
    THEN [kind |-> "reject", error |-> DestructureError("query", ToStr(args), args),
          call |-> NoCall]
    ELSE [kind |-> "call", error |-> Undefined,
          call |-> CASE handler = "basic"   -> [op |-> "search", params |-> BasicSearchParams(args)]
                     [] handler = "rewrite" -> [op |-> "aiSearch", params |-> RewriteSearchParams(args)]
                     [] handler = "ai"      -> [op |-> "aiSearch", params |-> AiSearchParams(args)]]

\* A handler from its invocation to its first suspension: the parameter
\* destructuring rejects the handler's promise when args is undefined or
\* null, otherwise the backend call is built and issued.
HandlerStart(handler, args) ==
    IF Nullish(args)
    THEN [kind |-> "reject", error |-> DestructureError("query", ToStr(args), args),
          call |-> NoCall]
    ELSE [kind |-> "call", error |-> Undefined,
          call |-> CASE handler = "basic"   -> [op |-> "search", params |-> BasicSearchParams(args)]
                     [] handler = "rewrite" -> [op |-> "search", params |-> RewriteSearchParams(args)]
                     [] handler = "ai"      -> [op |-> "aiSearch", params |-> AiSearchParams(args)]]

ErrorPrefix(handler) ==
    CASE handler = "basic"   -> "Error searching AutoRAG: "
      [] handler = "rewrite" -> "Error in AutoRAG rewrite search: "
      [] handler = "ai"      -> "Error in AutoRAG AI search: "

\* { ...result }: the own properties of an object, nothing for other values.
Spread(v) == IF v.type = "object" THEN v.fields ELSE <<>>

\* Variant of responseToReturn: include_ai_response defaults to true.
responseToReturnDefaultTrue(args, result) ==
    LET nextCursor == OrElse(Get(result, "next_page"), Undefined)
    IN  IF Truthy(Coalesce(Get(args, "include_ai_response"), JBool(TRUE)))
        THEN JObj(SetField(Spread(result), "nextCursor", nextCursor))
        ELSE JObj(<< <<"object", Get(result, "object")>>,
                     <<"search_query", Get(result, "search_query")>>,
                     <<"data", Get(result, "data")>>,
                     <<"has_more", Get(result, "has_more")>>,
                     <<"next_page", Get(result, "next_page")>>,
                     <<"nextCursor", nextCursor>> >>)

\* The object autorag_ai_search serializes for a backend result that is
\* neither undefined nor null.
responseToReturn(args, result) ==
    LET nextCursor == OrElse(Get(result, "next_page"), Undefined)
    IN  IF Truthy(Coalesce(Get(args, "include_ai_response"), JBool(FALSE)))
        THEN JObj(SetField(Spread(result), "nextCursor", nextCursor))
        ELSE JObj(<< <<"object", Get(result, "object")>>,
                     <<"search_query", Get(result, "search_query")>>,
                     <<"data", Get(result, "data")>>,
                     <<"has_more", Get(result, "has_more")>>,
                     <<"next_page", Get(result, "next_page")>>,
                     <<"nextCursor", nextCursor>> >>)

\* Variant of HandlerCatch: the catch block returns nothing.
HandlerCatchNoReturn(handler, error) == Undefined

\* Variant of HandlerCatch: the text does not carry the error's message.
HandlerCatchNoMessage(handler, error) == Content(JStr(ErrorPrefix(handler)))

\* The catch block of a handler.
HandlerCatch(handler, error) == Content(JStr(ErrorPrefix(handler) \o ErrorMessage(error)))

Fulfilled(v) == [kind |-> "fulfilled", value |-> v]
Rejected(e) == [kind |-> "rejected", value |-> e]

\* Variant of HandlerFinish: the handler has no try/catch, a failure
\* rejects its promise.
HandlerFinishNoCatch(handler, args, outcome) ==
    IF outcome.kind # "resolve" THEN Rejected(outcome.value)
    ELSE IF handler \in {"basic", "rewrite"}
         THEN Fulfilled(Content(JSONStringify2(outcome.value)))
    ELSE IF Nullish(outcome.value)
         THEN Rejected(ReadError(
                  IF Truthy(Coalesce(Get(args, "include_ai_response"), JBool(FALSE)))
                  THEN "next_page" ELSE "object", outcome.value))
         ELSE Fulfilled(Content(JSONStringify2(responseToReturn(args, outcome.value))))

\* Variant of HandlerFinish: the text is String(result), not its JSON.
HandlerFinishToString(handler, args, outcome) ==
    IF outcome.kind # "resolve" THEN Fulfilled(HandlerCatch(handler, outcome.value))
    ELSE IF handler \in {"basic", "rewrite"}
         THEN Fulfilled(Content(JStr(ToStr(outcome.value))))
    ELSE IF Nullish(outcome.value)
         THEN Fulfilled(HandlerCatch(handler,
                  ReadError(IF Truthy(Coalesce(Get(args, "include_ai_response"), JBool(FALSE)))
                            THEN "next_page" ELSE "object", outcome.value)))
         ELSE Fulfilled(Content(JStr(ToStr(responseToReturn(args, outcome.value)))))

\* A handler from the outcome of its backend call to the settlement of the
\* promise it returned.  outcome.kind is "resolve" (value is the result),
\* or "reject" / "throw" (value is the error).  Everything after the
\* parameter destructuring is inside the handler's try block.
HandlerFinish(handler, args, outcome) ==
    IF outcome.kind # "resolve" THEN Fulfilled(HandlerCatch(handler, outcome.value))
    ELSE IF handler \in {"basic", "rewrite"}
         THEN Fulfilled(Content(JSONStringify2(outcome.value)))
    ELSE IF Nullish(outcome.value)
         THEN Fulfilled(HandlerCatch(handler,
                  ReadError(IF Truthy(Coalesce(Get(args, "include_ai_response"), JBool(FALSE)))
                            THEN "next_page" ELSE "object", outcome.value)))
         ELSE Fulfilled(Content(JSONStringify2(responseToReturn(args, outcome.value))))

(***************************************************************************)
(* WorkersMcpServer.handleRequest                                          *)
(***************************************************************************)
ResultResponse(id, result) ==
    JObj(<< <<"jsonrpc", JStr("2.0")>>, <<"id", id>>, <<"result", result>> >>)

ErrorResponse(id, code, message) ==
    JObj(<< <<"jsonrpc", JStr("2.0")>>, <<"id", id>>,
            <<"error", JObj(<< <<"code", JNum(code)>>, <<"message", JStr(message)>> >>)>> >>)

FiltersHelp ==
    "Metadata filtering is not supported in Workers bindings. Please use the REST API for filtered queries. See: https://developers.cloudflare.com/autorag/usage/rest-api/"

InvalidParamsResponse(id) ==
    JObj(<< <<"jsonrpc", JStr("2.0")>>, <<"id", id>>,
            <<"error", JObj(<< <<"code", JNum("-32602")>>,
                               <<"message", JStr("Invalid params")>>,
                               <<"data", JStr(FiltersHelp)>> >>)>> >>)

\* Variant of InternalError: the response is built with a null id.
InternalErrorNullId(id, error) ==
    ErrorResponse(JNull, "-32603", "Internal error: " \o ErrorMessage(error))

\* Variant of InternalError: the message does not carry the exception's.
InternalErrorNoMessage(id, error) == ErrorResponse(id, "-32603", "Internal error")

\* The catch block of handleRequest.
InternalError(id, error) ==
    ErrorResponse(id, "-32603", "Internal error: " \o ErrorMessage(error))

\* The entries of tools/list.
ToolList(registry) ==
    JArr([i \in 1..Len(registry) |->
            JObj(<< <<"name", JStr(registry[i].name)>>,
                    <<"description", JStr(registry[i].description)>>,
                    <<"inputSchema", registry[i].inputSchema>> >>)])

Return(response) ==
    [kind |-> "return", response |-> response, error |-> Undefined,
     handler |-> "none", args |-> Undefined]
Throw(error) ==
    [kind |-> "throw", response |-> Undefined, error |-> error,
     handler |-> "none", args |-> Undefined]
Invoke(handler, args) ==
    [kind |-> "invoke", response |-> Undefined, error |-> Undefined,
     handler |-> handler, args |-> args]

\* Variant of ToolsCall: an unknown name falls back to the first tool.
ToolsCallDefaultTool(registry, id, params) ==
    IF Nullish(params) THEN Throw(DestructureError("name", "params", params))
    ELSE LET name == Get(params, "name")
             args == Get(params, "arguments")
             found == Lookup(registry, name)
             tool == IF found = <<>> THEN <<registry[1]>> ELSE found
         IN  IF Truthy(args) /\ Truthy(Get(args, "filters"))
             THEN Return(InvalidParamsResponse(id))
             ELSE Invoke(tool[1].handler, args)

\* Variant of ToolsCall: the filters argument is checked before the lookup.
ToolsCallFiltersFirst(registry, id, params) ==
    IF Nullish(params) THEN Throw(DestructureError("name", "params", params))
    ELSE LET name == Get(params, "name")
             args == Get(params, "arguments")
             tool == Lookup(registry, name)
         IN  IF Truthy(args) /\ Truthy(Get(args, "filters"))
             THEN Return(InvalidParamsResponse(id))
             ELSE IF tool = <<>>
             THEN Return(ErrorResponse(id, "-32601", "Tool '" \o ToStr(name) \o "' not found"))
             ELSE Invoke(tool[1].handler, args)

\* Variant of ToolsCall: the filters argument is not checked.
ToolsCallNoFiltersCheck(registry, id, params) ==
    IF Nullish(params) THEN Throw(DestructureError("name", "params", params))
    ELSE LET name == Get(params, "name")
             args == Get(params, "arguments")
             tool == Lookup(registry, name)
         IN  IF tool = <<>>
             THEN Return(ErrorResponse(id, "-32601", "Tool '" \o ToStr(name) \o "' not found"))
             ELSE Invoke(tool[1].handler, args)

\* case 'tools/call', up to the handler invocation.
ToolsCall(registry, id, params) ==
    IF Nullish(params) THEN Throw(DestructureError("name", "params", params))
    ELSE LET name == Get(params, "name")
             args == Get(params, "arguments")
             tool == Lookup(registry, name)
         IN  IF tool = <<>>
             THEN Return(ErrorResponse(id, "-32601", "Tool '" \o ToStr(name) \o "' not found"))
             ELSE IF Truthy(args) /\ Truthy(Get(args, "filters"))
             THEN Return(InvalidParamsResponse(id))
             ELSE Invoke(tool[1].handler, args)

\* Variant of UnsupportedMessage: the method is interpolated without being
\* tested first.
UnsupportedMessageUntested(method) == "Method '" \o ToStr(method) \o "' not supported"

\* The message of the default case.
UnsupportedMessage(method) ==
    IF Truthy(method) THEN "Method '" \o ToStr(method) \o "' not supported"
    ELSE "Method is required"

\* The switch of handleRequest for a request that is neither undefined nor
\* null: the response it returns, the exception it throws, or the handler
\* it invokes and awaits.
Dispatch(registry, request) ==
    LET method == Get(request, "method")
        params == Get(request, "params")
        id == Get(request, "id")
    IN  CASE method = JStr("initialize") ->
                Return(ResultResponse(id,
                    JObj(<< <<"protocolVersion", JStr("2024-11-05")>>,
                            <<"capabilities", capabilities>>,
                            <<"serverInfo", serverInfo>> >>)))
          [] method = JStr("tools/list") ->
                Return(ResultResponse(id, JObj(<< <<"tools", ToolList(registry)>> >>)))
          [] method = JStr("tools/call") -> ToolsCall(registry, id, params)
          [] method = JStr("resources/list") ->
                Return(ResultResponse(id, JObj(<< <<"resources", JArr(<<>>)>> >>)))
          [] method = JStr("prompts/list") ->
                Return(ResultResponse(id, JObj(<< <<"prompts", JArr(<<>>)>> >>)))
          [] OTHER ->
                Return(ErrorResponse(id, "-32601", UnsupportedMessage(method)))

(***************************************************************************)
(* fetch: one request from its arrival to the HTTP response                *)
(***************************************************************************)
HttpResponse(status, body) == [status |-> status, body |-> body]

\* The 405 body of a request that is neither OPTIONS nor POST.
NotPostBody ==
    JSONStringify(JObj(<< <<"jsonrpc", JStr("2.0")>>,
        <<"error", JObj(<< <<"code", JNum("-32600")>>,
                           <<"message", JStr("Invalid Request - only POST method supported")>> >>)>>,
        <<"id", JNull>> >>))

\* The 500 body of the catch block of fetch.
ServerErrorBody(error) ==
    JSONStringify(JObj(<< <<"jsonrpc", JStr("2.0")>>,
        <<"error", JObj(<< <<"code", JNum("-32603")>>,
                           <<"message", JStr("Internal server error: " \o ErrorMessage(error))>> >>)>>,
        <<"id", JNull>> >>))

(***************************************************************************)
(* Inputs                                                                  *)
(***************************************************************************)
\* The largest number of optional arguments one tools/call carries.
MaxOptionalArgs == 2

\* An object as JSON.parse builds it: a key whose value is given as
\* Undefined here is a key the document does not have.
Parsed(pairs) == JObj(SelectSeq(pairs, LAMBDA p : p[2].type # "undefined"))

Ids == {Undefined, JNull, JNum("7"), JStr("a1")}

ToolNames == {"autorag_basic_search", "autorag_rewrite_search", "autorag_ai_search"}

OptionalArgKeys ==
    <<"score_threshold", "max_num_results", "rewrite_query", "include_ai_response",
      "cursor", "filters">>

ArgValues(k) ==
    CASE k = "score_threshold"     -> {JNum("0"), JNum("0.7")}
      [] k = "max_num_results"     -> {JNum("3")}
      [] k = "rewrite_query"       -> {JBool(TRUE), JBool(FALSE)}
      [] k = "include_ai_response" -> {JBool(TRUE), JBool(FALSE)}
      [] k = "cursor"              -> {JStr(""), JStr("c1")}
      [] k = "filters"             ->
            {JObj(<< <<"folder", JStr("t1")>> >>), JBool(FALSE), JNull}

AllArgValues == UNION {ArgValues(OptionalArgKeys[i]) : i \in 1..Len(OptionalArgKeys)}

ArgObject(query, S, f) ==
    LET ks == SelectSeq(OptionalArgKeys, LAMBDA k : k \in S)
    IN  Parsed(<< <<"query", query>> >> \o [i \in 1..Len(ks) |-> <<ks[i], f[ks[i]]>>])

\* Argument objects: with or without a query, and with at most
\* MaxOptionalArgs of the optional keys.
ArgObjects ==
    UNION {
      {ArgObject(q, S, f) :
          q \in {JStr("q"), Undefined},
          f \in {g \in [S -> AllArgValues] : \A k \in S : g[k] \in ArgValues(k)}} :
      S \in {T \in SUBSET {OptionalArgKeys[i] : i \in 1..Len(OptionalArgKeys)} :
                Cardinality(T) <= MaxOptionalArgs}}

\* params of tools/call: absent, null, or an object whose name is a
\* registered tool, an unknown tool or absent, with arguments of any kind.
CallParams ==
    {Undefined, JNull}
    \cup {Parsed(<< <<"name", JStr(n)>>, <<"arguments", a>> >>) :
            n \in ToolNames, a \in ArgObjects \cup {Undefined, JNull, JStr("q"), JNum("0")}}
    \cup {Parsed(<< <<"name", n>>, <<"arguments", a>> >>) :
            n \in {JStr("no_such_tool"), Undefined},
            a \in {Undefined,
                   Parsed(<< <<"query", JStr("q")>> >>),
                   Parsed(<< <<"query", JStr("q")>>,
                             <<"filters", JObj(<< <<"folder", JStr("t1")>> >>)>> >>)}}

OtherMethods ==
    {JStr("initialize"), JStr("tools/list"), JStr("resources/list"), JStr("prompts/list"),
     JStr("foo/bar"), JStr(""), Undefined}

Request(id, method, params) ==
    Parsed(<< <<"jsonrpc", JStr("2.0")>>, <<"id", id>>, <<"method", method>>,
              <<"params", params>> >>)

\* params of tools/call with which every id is tried.
FewCallParams ==
    {p \in CallParams :
        Get(p, "arguments").type = "object" => Len(Get(p, "arguments").fields) <= 1}

\* What request.json() can resolve to: null, a number, requests of every
\* method with every kind of id, and tools/call requests with every params
\* under one id.
Bodies ==
    {JNull, JNum("5")}
    \cup {Request(id, m, p) : id \in Ids, m \in OtherMethods, p \in {Undefined, JObj(<<>>)}}
    \cup {Request(id, JStr("tools/call"), p) : id \in Ids, p \in FewCallParams}
    \cup {Request(JStr("a1"), JStr("tools/call"), p) : p \in CallParams}

\* Values thrown by the backend or by request.json(): an Error, or
\* something that is not an Error.
Errors == {JError("boom"), JStr("bad")}

Chunk ==
    JObj(<< <<"file_id", JStr("f1")>>, <<"content", JStr("say \"hi\"")>>,
            <<"score", JNum("0.9")>> >>)

\* What search() can resolve to.
SearchResults ==
    {Undefined}
    \cup {JObj(<< <<"object", JStr("page")>>, <<"search_query", JStr("q")>>,
                  <<"data", JArr(d)>> >>) : d \in {<<>>, <<Chunk>>}}

\* What aiSearch() can resolve to.
AiSearchResults ==
    {Undefined}
    \cup {Parsed(<< <<"object", JStr("page")>>, <<"search_query", JStr("q")>>,
                    <<"response", r>>, <<"data", JArr(<<>>)>>,
                    <<"has_more", JBool(m)>>, <<"next_page", n>> >>) :
            r \in {JStr("an answer"), Undefined}, m \in BOOLEAN,
            n \in {JNull, JStr(""), JStr("p2")}}

Results(op) == IF op = "search" THEN SearchResults ELSE AiSearchResults

(***************************************************************************)
(* State                                                                   *)
(***************************************************************************)
\* The number of requests one behaviour serves.
MaxRequests == 1

\* The number of requests one worker processes at the same time.
MaxConcurrent == 2

\* What one invocation of fetch holds: the body, the server built for it
\* and the handler suspended on its backend call are locals of that
\* invocation.
IdleSlot ==
    [pc |-> "idle", request |-> <<>>, tools |-> <<>>, pending |-> <<>>, calls |-> <<>>,
     backend |-> <<>>, response |-> <<>>, http |-> <<>>]

VARIABLES
    pc,        \* "idle", "awaiting" (a backend call is in flight) or "done"
    request,   \* the body request.json() resolved to, as <<body>>; <<>> if none
    tools,     \* the registry of the server built for this request
    pending,   \* the suspended handler, as <<[handler, args]>>; <<>> if none
    invoked,   \* the handlers invoked for this request, in order
    calls,     \* the backend calls issued for this request, in order
    backend,   \* the outcomes of those calls, in order
    caught,    \* the exceptions that reached the catch block of handleRequest
    response,  \* what handleRequest returned, as <<response>>; <<>> if nothing
    thrown,    \* what handleRequest threw, as <<error>>; <<>> if nothing
    http,      \* what fetch returned, as <<[status, body]>>; <<>> if nothing yet
    served,    \* the number of requests answered so far
    added,     \* the addTool calls made on the server, in order
    inflight   \* the requests one worker processes at the same time, by slot

vars ==
    <<pc, request, tools, pending, invoked, calls, backend, caught, response, thrown,
      http, served, added, inflight>>

Init ==
    /\ pc = "idle"
    /\ request = <<>>
    /\ tools = <<>>
    /\ pending = <<>>
    /\ invoked = <<>>
    /\ calls = <<>>
    /\ backend = <<>>
    /\ caught = <<>>
    /\ response = <<>>
    /\ thrown = <<>>
    /\ http = <<>>
    /\ served = 0
    /\ added = <<>>
    /\ inflight = [s \in 1..MaxConcurrent |-> IdleSlot]

\* Variant of Respond: handleRequest returns and nothing is sent.
RespondNothing(r) ==
    /\ response' = <<>>
    /\ thrown' = <<>>
    /\ http' = <<>>
    /\ pending' = <<>>
    /\ pc' = "done"

\* handleRequest returns r: fetch serializes it with status 200.
Respond(r) ==
    /\ response' = <<r>>
    /\ thrown' = <<>>
    /\ http' = <<HttpResponse(200, JSONStringify(r))>>
    /\ pending' = <<>>
    /\ pc' = "done"

\* An exception reaches the catch block of handleRequest.
Catch(id, error) ==
    /\ caught' = <<error>>
    /\ Respond(InternalError(id, error))

\* const result = await tool.handler(args), once the handler's promise has
\* settled: a fulfilled handler gives a result response, a rejected one
\* throws into the catch block.
AfterHandler(id, settled) ==
    IF settled.kind = "fulfilled"
    THEN caught' = <<>> /\ Respond(ResultResponse(id, settled.value))
    ELSE Catch(id, settled.value)

\* CORS preflight.
FetchOptions ==
    /\ pc = "idle" /\ served < MaxRequests
    /\ http' = <<HttpResponse(200, JNull)>>
    /\ pc' = "done"
    /\ UNCHANGED <<request, tools, pending, invoked, calls, backend, caught, response,
                   thrown, served, added, inflight>>

\* A method that is neither OPTIONS nor POST.
FetchNotPost ==
    /\ pc = "idle" /\ served < MaxRequests
    /\ http' = <<HttpResponse(405, NotPostBody)>>
    /\ pc' = "done"
    /\ UNCHANGED <<request, tools, pending, invoked, calls, backend, caught, response,
                   thrown, served, added, inflight>>

\* A POST whose body request.json() rejects.
FetchBadJson(e) ==
    /\ pc = "idle" /\ served < MaxRequests
    /\ http' = <<HttpResponse(500, ServerErrorBody(e))>>
    /\ pc' = "done"
    /\ UNCHANGED <<request, tools, pending, invoked, calls, backend, caught, response,
                   thrown, served, added, inflight>>

\* A POST with body b: the server is built and handleRequest runs until it
\* returns, throws, or suspends on the backend call of the handler.  With
\* sync = <<e>> the backend call throws e instead of returning a promise.
FetchPost(b, sync) ==
    /\ pc = "idle" /\ served < MaxRequests
    /\ request' = <<b>>
    /\ tools' = createServer
    /\ added' = ToolDefinitions
    /\ served' = served
    /\ inflight' = inflight
    /\ IF Nullish(b)
       THEN /\ sync = <<>>
            /\ thrown' = <<DestructureError("method", "request", b)>>
            /\ http' = <<HttpResponse(500, ServerErrorBody(thrown'[1]))>>
            /\ pc' = "done"
            /\ UNCHANGED <<pending, invoked, calls, backend, caught, response>>
       ELSE LET d == Dispatch(tools', b)
                id == Get(b, "id")
            IN  CASE d.kind = "return" ->
                        /\ sync = <<>>
                        /\ caught' = <<>>
                        /\ Respond(d.response)
                        /\ UNCHANGED <<invoked, calls, backend>>
                  [] d.kind = "throw" ->
                        /\ sync = <<>>
                        /\ Catch(id, d.error)
                        /\ UNCHANGED <<invoked, calls, backend>>
                  [] d.kind = "invoke" ->
                        LET h == HandlerStart(d.handler, d.args)
                        IN  /\ invoked' = <<d.handler>>
                            /\ IF h.kind = "reject"
                               THEN /\ sync = <<>>
                                    /\ AfterHandler(id, Rejected(h.error))
                                    /\ UNCHANGED <<calls, backend>>
                               ELSE /\ calls' = <<h.call>>
                                    /\ IF sync = <<>>
                                       THEN /\ pending' = <<[handler |-> d.handler,
                                                             args |-> d.args]>>
                                            /\ pc' = "awaiting"
                                            /\ UNCHANGED <<backend, caught, response, thrown,
                                                           http>>
                                       ELSE LET o == [kind |-> "throw", value |-> sync[1]]
                                            IN  /\ backend' = <<o>>
                                                /\ AfterHandler(id,
                                                       HandlerFinish(d.handler, d.args, o))

\* The backend call settles with outcome o: the handler resumes and
\* returns, handleRequest returns, fetch responds.
BackendSettles(o) ==
    /\ pc = "awaiting"
    /\ backend' = Append(backend, o)
    /\ AfterHandler(Get(request[1], "id"),
                    HandlerFinish(pending[1].handler, pending[1].args, o))
    /\ UNCHANGED <<request, tools, invoked, calls, served, added, inflight>>

BackendResolves ==
    /\ pc = "awaiting"
    /\ \E v \in Results(calls[Len(calls)].op) :
            BackendSettles([kind |-> "resolve", value |-> v])

BackendRejects ==
    /\ pc = "awaiting"
    /\ \E e \in Errors : BackendSettles([kind |-> "reject", value |-> e])

\* The HTTP response is delivered; nothing of the request survives.
Deliver ==
    /\ pc = "done"
    /\ pc' = "idle"
    /\ request' = <<>>
    /\ tools' = <<>>
    /\ pending' = <<>>
    /\ invoked' = <<>>
    /\ calls' = <<>>
    /\ backend' = <<>>
    /\ caught' = <<>>
    /\ response' = <<>>
    /\ thrown' = <<>>
    /\ http' = <<>>
    /\ served' = served + 1
    /\ added' = <<>>
    /\ inflight' = inflight

Next ==
    \/ FetchOptions
    \/ FetchNotPost
    \/ \E e \in Errors : FetchBadJson(e)
    \/ \E b \in Bodies : FetchPost(b, <<>>)
    \/ \E b \in Bodies, e \in Errors : FetchPost(b, <<e>>)
    \/ BackendResolves
    \/ BackendRejects
    \/ Deliver

Spec == Init /\ [][Next]_vars

\* The bodies of Spec under one id.
OneIdBodies ==
    {JNull, JNum("5")}
    \cup {Request(JNum("7"), m, p) : m \in OtherMethods, p \in {Undefined, JObj(<<>>)}}
    \cup {Request(JNum("7"), JStr("tools/call"), p) : p \in FewCallParams}

FairNext ==
    \/ FetchOptions
    \/ FetchNotPost
    \/ \E e \in Errors : FetchBadJson(e)
    \/ \E b \in OneIdBodies : FetchPost(b, <<>>)
    \/ \E b \in OneIdBodies, e \in Errors : FetchPost(b, <<e>>)
    \/ BackendResolves
    \/ BackendRejects
    \/ Deliver

\* The requests of fetch when every backend call that was issued settles:
\* the promise of search() or aiSearch() is eventually fulfilled or rejected.
FairSpec == Init /\ [][FairNext]_vars /\ WF_vars(BackendResolves \/ BackendRejects)

(***************************************************************************)
(* A WorkersMcpServer used directly: addTool and handleRequest             *)
(***************************************************************************)
\* The number of fields of an object descriptor.
MaxFields == 2

FieldNames == <<"a", "b", "c", "d">>

StringOrNumber == ZUnion(<<ZString, ZNumber>>)

\* Field descriptors that are not objects.
Leaves == {Describe(ZString, "a text"), ZNumber, ZBoolean, ZRecord, StringOrNumber}

\* Object descriptors used as fields, one and two levels deep.
NestedObjects ==
    {ZObject(<< <<"n", t>> >>) :
        t \in {ZString, Optional(ZNumber), StringOrNumber,
               ZObject(<< <<"m", StringOrNumber>> >>),
               Optional(ZObject(<< <<"m", ZBoolean>> >>))}}

\* Every field shape, bare and under .optional().
FieldTypes ==
    LET bare == Leaves \cup NestedObjects
    IN  bare \cup {Optional(t) : t \in bare}

\* z.object({...}) of up to MaxFields fields.
ObjectDescriptors ==
    UNION {{ZObject([i \in 1..n |-> <<FieldNames[i], f[i]>>]) : f \in [1..n -> FieldTypes]} :
              n \in 0..MaxFields}

\* server.addTool(name, description, shape, handler) with the arguments r.
AddTool(r) ==
    /\ pc = "idle" /\ response = <<>>
    /\ tools' = Register(tools, r)
    /\ added' = Append(added, r)
    /\ UNCHANGED <<pc, request, pending, invoked, calls, backend, caught, response, thrown,
                   http, served, inflight>>

\* The first addTool on a new server, with a parameter shape of any form.
AddFirstTool(shape) ==
    /\ added = <<>>
    /\ AddTool(Registration("tool", "a tool", shape, "stub"))

\* server.handleRequest({jsonrpc: "2.0", id: 7, method: "tools/list"}).
ListTools ==
    /\ pc = "idle" /\ response = <<>>
    /\ LET r == Request(JNum("7"), JStr("tools/list"), Undefined)
       IN  /\ request' = <<r>>
           /\ response' = <<Dispatch(tools, r).response>>
    /\ UNCHANGED <<pc, tools, pending, invoked, calls, backend, caught, thrown, http, served,
                   added, inflight>>

SchemaNext ==
    \/ \E shape \in ObjectDescriptors : AddFirstTool(shape)
    \/ ListTools

\* One tool with any parameter shape, compiled and listed.
SpecSchema == Init /\ [][SchemaNext]_vars

\* The number of addTool calls on one server.
MaxRegistrations == 3

\* Two definitions a tool can be registered with.
Definitions ==
    {<<"first description", ZObject(<< <<"query", ZString>> >>), "h1">>,
     <<"second description", ZObject(<< <<"query", ZString>>, <<"limit", Optional(ZNumber)>> >>),
       "h2">>}

Registrations ==
    {Registration(n, d[1], d[2], d[3]) : n \in {"alpha", "beta", "gamma"}, d \in Definitions}

\* One more addTool on the server.
AddAnotherTool(r) ==
    /\ Len(added) < MaxRegistrations
    /\ AddTool(r)

RegistryNext ==
    \/ \E r \in Registrations : AddAnotherTool(r)
    \/ ListTools

\* Any sequence of addTool calls, then tools/list.
SpecRegistry == Init /\ [][RegistryNext]_vars

(***************************************************************************)
(* Several requests in one worker: fetch invocations interleave at the     *)
(* await of the backend call                                               *)
(***************************************************************************)
\* handleRequest returns r in the invocation slot: fetch serializes it.
Answered(slot, r) ==
    [slot EXCEPT !.response = <<r>>, !.http = <<HttpResponse(200, JSONStringify(r))>>,
                 !.pending = <<>>, !.pc = "done"]

\* The handler's promise settled in the invocation slot.
Returned(slot, settled) ==
    LET id == Get(slot.request[1], "id")
    IN  Answered(slot, IF settled.kind = "fulfilled"
                       THEN ResultResponse(id, settled.value)
                       ELSE InternalError(id, settled.value))

\* The backend call of the invocation slot settled with outcome o: its
\* handler resumes with the arguments it was called with.
Resume(slot, o) ==
    Returned([slot EXCEPT !.backend = <<o>>],
             HandlerFinish(slot.pending[1].handler, slot.pending[1].args, o))

\* fetch for a POST with body b, up to its response or to the await of the
\* backend call; with sync = <<e>> the backend call throws e.
Begin(b, sync) ==
    LET fresh == [IdleSlot EXCEPT !.request = <<b>>, !.tools = createServer]
    IN  IF Nullish(b)
        THEN [fresh EXCEPT !.pc = "done",
                           !.http = <<HttpResponse(500,
                                        ServerErrorBody(DestructureError("method", "request", b)))>>]
        ELSE LET d == Dispatch(fresh.tools, b)
             IN  CASE d.kind = "return" -> Answered(fresh, d.response)
                   [] d.kind = "throw" -> Answered(fresh, InternalError(Get(b, "id"), d.error))
                   [] d.kind = "invoke" ->
                        LET h == HandlerStart(d.handler, d.args)
                            awaiting == [fresh EXCEPT !.pc = "awaiting", !.calls = <<h.call>>,
                                            !.pending = <<[handler |-> d.handler, args |-> d.args]>>]
                        IN  IF h.kind = "reject" THEN Returned(fresh, Rejected(h.error))
                            ELSE IF sync = <<>> THEN awaiting
                            ELSE Resume(awaiting, [kind |-> "throw", value |-> sync[1]])

\* Variant of Closure: the suspended handler is kept in one place for all
\* invocations, the one of the lowest waiting slot is resumed.
ClosureShared(all, s) ==
    LET t == CHOOSE t \in DOMAIN all :
                 /\ all[t].pc = "awaiting"
                 /\ \A u \in DOMAIN all : all[u].pc = "awaiting" => t <= u
    IN  [all[s] EXCEPT !.pending = all[t].pending]

\* What the continuation of invocation s closes over: body, server and
\* handler arguments are locals of that invocation of fetch.
Closure(all, s) == all[s]

\* The requests processed side by side.
ConcurrentBodies ==
    {JNull,
     Request(JStr("r1"), JStr("tools/list"), Undefined),
     Request(JStr("r2"), JStr("tools/call"),
             Parsed(<< <<"name", JStr("autorag_rewrite_search")>> >>)),
     Request(JStr("r3"), JStr("tools/call"),
             Parsed(<< <<"name", JStr("autorag_basic_search")>>,
                       <<"arguments", Parsed(<< <<"query", JStr("q")>> >>)>> >>)),
     Request(JStr("r4"), JStr("tools/call"),
             Parsed(<< <<"name", JStr("autorag_ai_search")>>,
                       <<"arguments", Parsed(<< <<"query", JStr("q")>>,
                                                <<"include_ai_response", JBool(TRUE)>> >>)>> >>))}

\* The outcomes of their backend calls.
ConcurrentOutcomes(op) ==
    {[kind |-> "reject", value |-> JError("boom")]}
    \cup {[kind |-> "resolve", value |-> v] :
             v \in {r \in Results(op) :
                       op = "aiSearch" => /\ Get(r, "next_page") = JStr("p2")
                                          /\ Get(r, "has_more") = JBool(TRUE)}}

\* fetch is invoked for a POST with body b while other invocations wait.
ConcurrentFetch(s, b, sync) ==
    /\ inflight[s].pc = "idle"
    /\ inflight' = [inflight EXCEPT ![s] = Begin(b, sync)]
    /\ sync # <<>> => inflight'[s].backend # <<>>
    /\ UNCHANGED <<pc, request, tools, pending, invoked, calls, backend, caught, response,
                   thrown, http, served, added>>

\* The backend call of invocation s settles: its handler resumes and fetch
\* responds.
ConcurrentSettle(s) ==
    /\ inflight[s].pc = "awaiting"
    /\ \E o \in ConcurrentOutcomes(inflight[s].calls[1].op) :
          inflight' = [inflight EXCEPT ![s] = Resume(Closure(inflight, s), o)]
    /\ UNCHANGED <<pc, request, tools, pending, invoked, calls, backend, caught, response,
                   thrown, http, served, added>>

\* The response of invocation s is delivered; its locals are gone.
ConcurrentDeliver(s) ==
    /\ inflight[s].pc = "done"
    /\ inflight' = [inflight EXCEPT ![s] = IdleSlot]
    /\ UNCHANGED <<pc, request, tools, pending, invoked, calls, backend, caught, response,
                   thrown, http, served, added>>

ConcurrentNext ==
    \/ \E s \in 1..MaxConcurrent, b \in ConcurrentBodies : ConcurrentFetch(s, b, <<>>)
    \/ \E s \in 1..MaxConcurrent, b \in ConcurrentBodies :
          ConcurrentFetch(s, b, <<JError("boom")>>)
    \/ \E s \in 1..MaxConcurrent : ConcurrentSettle(s)
    \/ \E s \in 1..MaxConcurrent : ConcurrentDeliver(s)

\* Up to MaxConcurrent invocations of fetch in one worker.
SpecConcurrent == Init /\ [][ConcurrentNext]_vars

(***************************************************************************)
(* Properties                                                              *)
(***************************************************************************)
Req == request[1]
Resp == response[1]
Method == Get(Req, "method")
Params == Get(Req, "params")
Name == Get(Params, "name")
Args == Get(Params, "arguments")

\* o has a property k with a value
Carries(o, k) == Get(o, k).type # "undefined"

ErrorCode == Get(Get(Resp, "error"), "code")
ErrorText == Get(Get(Resp, "error"), "message")

\* The request is a tools/call whose params object names a registered tool.
CallsRegisteredTool ==
    /\ request # <<>>
    /\ Method = JStr("tools/call")
    /\ Name.type = "string"
    /\ \E i \in 1..Len(tools) : tools[i].name = Name.s

\* The result of the response is a payload whose content is exactly one
\* item, of type "text".
OneTextItem ==
    LET content == Get(Get(Resp, "result"), "content")
    IN  /\ content.type = "array"
        /\ Len(content.items) = 1
        /\ Get(content.items[1], "type") = JStr("text")

\* The text of that item.
Text == Get(Get(Get(Resp, "result"), "content").items[1], "text")

\* The message of a thrown value: of an Error its message, of a string the
\* string.
MessageOf(e) == IF e.type = "error" THEN e.message ELSE e.s

\* C1: every response handleRequest returns carries exactly one of the
\* fields result and error.
C1_ExactlyOneOfResultAndError ==
    response # <<>> => ~(Carries(Resp, "result") <=> Carries(Resp, "error"))

\* A handler whose backend call was rejected has been answered.
C1_Witness ==
    /\ response # <<>>
    /\ backend # <<>> /\ backend[1].kind = "reject"
    /\ Carries(Resp, "result")

\* C2: the id of every response equals the id of its request, absent ids
\* included, on every path.
C2_IdEchoed ==
    response # <<>> => Get(Resp, "id") = Get(Req, "id")

\* An internal error answered to a request without an id.
C2_Witness ==
    /\ response # <<>>
    /\ ErrorCode = JNum("-32603")
    /\ Req.type = "object" /\ ~Has(Req, "id")

\* C3: a tools/call whose params.name is not a registered tool name is
\* answered by error -32601 whose message contains the name, never by a
\* result.
C3_UnknownToolNotFound ==
    (/\ response # <<>>
     /\ Method = JStr("tools/call")
     /\ ~Nullish(Params)
     /\ ~CallsRegisteredTool)
    => /\ ErrorCode = JNum("-32601")
       /\ ~Carries(Resp, "result")
       /\ ErrorText.type = "string"
       /\ Name.type = "string" => Contains(ErrorText.s, Name.s)

\* An unknown tool called with a filters argument has been answered.
C3_Witness ==
    /\ response # <<>>
    /\ Method = JStr("tools/call")
    /\ Name = JStr("no_such_tool")
    /\ Truthy(Get(Args, "filters"))

SupportedMethods ==
    {JStr("initialize"), JStr("tools/list"), JStr("tools/call"), JStr("resources/list"),
     JStr("prompts/list")}

\* C4: a method that is none of the five supported ones is answered by
\* error -32601 whose message contains the method; an absent method by
\* error -32601 whose message says that a method is required.
C4_UnsupportedMethod ==
    (/\ response # <<>>
     /\ Method \notin SupportedMethods)
    => /\ ErrorCode = JNum("-32601")
       /\ ~Carries(Resp, "result")
       /\ ErrorText.type = "string"
       /\ Method.type = "string" => Contains(ErrorText.s, Method.s)
       /\ Method.type = "undefined" => ErrorText.s = "Method is required"

\* A request without a method has been answered.
C4_Witness ==
    /\ response # <<>>
    /\ Req.type = "object" /\ ~Has(Req, "method")

\* C5: when the backend call rejects or throws, the response is a result
\* whose content is one text item containing the error's message.
C5_BackendErrorIsResult ==
    (/\ response # <<>>
     /\ backend # <<>>
     /\ backend[1].kind \in {"reject", "throw"})
    => /\ Carries(Resp, "result")
       /\ ~Carries(Resp, "error")
       /\ OneTextItem
       /\ Text.type = "string"
       /\ Contains(Text.s, MessageOf(backend[1].value))

\* The backend call of autorag_ai_search threw and was answered.
C5_Witness ==
    /\ response # <<>>
    /\ invoked = <<"ai">>
    /\ backend # <<>> /\ backend[1].kind = "throw"

\* C6 as stated: whenever the handler of a registered tool is invoked, the
\* response carries a result holding a content payload and no error,
\* whatever the arguments are.
C6_Original ==
    (response # <<>> /\ invoked # <<>>)
    => /\ Carries(Resp, "result")
       /\ ~Carries(Resp, "error")
       /\ Get(Get(Resp, "result"), "content").type = "array"

\* C6 amended: whenever the handler of a registered tool is invoked with
\* arguments that are neither absent nor null, the response carries a
\* result holding a content payload and no error, whatever the backend does.
C6_HandlerCallIsResult ==
    (response # <<>> /\ invoked # <<>> /\ ~Nullish(Args))
    => /\ Carries(Resp, "result")
       /\ ~Carries(Resp, "error")
       /\ Get(Get(Resp, "result"), "content").type = "array"

\* A handler invoked with arguments that are not an object, whose backend
\* call was rejected, has been answered.
C6_Witness ==
    /\ response # <<>>
    /\ invoked # <<>>
    /\ Args.type \in {"string", "number"}
    /\ backend # <<>> /\ backend[1].kind = "reject"

\* The arguments are an object with a string query.
WellFormedArgs == Args.type = "object" /\ Get(Args, "query").type = "string"

\* C7 as stated: a tools/call with a registered name and well-formed
\* arguments is answered by a result whose content is one text item holding
\* parseable JSON, for every backend outcome.
C7_Original ==
    (response # <<>> /\ CallsRegisteredTool /\ WellFormedArgs)
    => /\ OneTextItem
       /\ Parseable(Text)

\* C7 amended: a tools/call with a registered name and well-formed
\* arguments without a truthy filters value, whose backend call resolves
\* with an object, is answered by a result whose content is one text item
\* holding parseable JSON.
C7_SuccessIsOneJsonText ==
    (/\ response # <<>>
     /\ CallsRegisteredTool
     /\ WellFormedArgs
     /\ ~Truthy(Get(Args, "filters"))
     /\ backend # <<>>
     /\ backend[1].kind = "resolve"
     /\ backend[1].value.type = "object")
    => /\ Carries(Resp, "result")
       /\ ~Carries(Resp, "error")
       /\ OneTextItem
       /\ Parseable(Text)

\* A search that resolved with a chunk whose content holds quotes has been
\* answered.
C7_Witness ==
    /\ response # <<>>
    /\ CallsRegisteredTool
    /\ WellFormedArgs
    /\ backend # <<>> /\ backend[1].kind = "resolve"
    /\ backend[1].value.type = "object"
    /\ Get(backend[1].value, "data") = JArr(<<Chunk>>)

\* C8: an exception raised while handleRequest dispatches (params absent
\* or null in tools/call, a handler whose promise rejects) is answered by
\* error -32603 whose message contains the exception's message, and
\* handleRequest does not throw for a request that is an object.
C8_ExceptionIsInternalError ==
    /\ caught # <<>> =>
          /\ response # <<>>
          /\ ErrorCode = JNum("-32603")
          /\ ~Carries(Resp, "result")
          /\ ErrorText.type = "string"
          /\ Contains(ErrorText.s, MessageOf(caught[1]))
    /\ (pc = "done" /\ request # <<>> /\ Req.type = "object"
           /\ Method = JStr("tools/call") /\ Nullish(Params)) => caught # <<>>
    /\ (pc = "done" /\ invoked # <<>> /\ Nullish(Args)) => caught # <<>>
    /\ (request # <<>> /\ Req.type = "object") => thrown = <<>>

\* A handler invoked without arguments rejected and was answered.
C8_Witness ==
    /\ response # <<>>
    /\ caught # <<>>
    /\ invoked # <<>>
    /\ ~Has(Params, "arguments")

\* C9 as stated: a tools/call for a registered tool that supplies a filters
\* argument of any value is answered by error -32602 and the handler is not
\* invoked.
C9_Original ==
    (CallsRegisteredTool /\ Has(Args, "filters"))
    => /\ invoked = <<>>
       /\ response # <<>> => (ErrorCode = JNum("-32602") /\ ErrorText = JStr("Invalid params"))

\* C9 amended: a tools/call for a registered tool that supplies a filters
\* argument with a truthy value is answered by error -32602 and the handler
\* is not invoked.
C9_TruthyFiltersRejected ==
    (CallsRegisteredTool /\ Truthy(Args) /\ Truthy(Get(Args, "filters")))
    => /\ invoked = <<>>
       /\ calls = <<>>
       /\ response # <<>> => (ErrorCode = JNum("-32602") /\ ErrorText = JStr("Invalid params"))

\* A registered tool called with a filters object has been answered.
C9_Witness ==
    /\ response # <<>>
    /\ CallsRegisteredTool
    /\ Get(Args, "filters").type = "object"

\* C10: for autorag_ai_search with a backend call that resolved, the
\* serialized output has no response field when include_ai_response is
\* absent or false, and has the backend's response when it is true.
C10_AiResponseOnlyOnRequest ==
    (/\ response # <<>>
     /\ invoked = <<"ai">>
     /\ backend # <<>>
     /\ backend[1].kind = "resolve"
     /\ backend[1].value.type = "object")
    => LET out == JSONParse(Text.s)
           include == Get(Args, "include_ai_response")
       IN  /\ out.ok
           /\ include \in {Undefined, JBool(FALSE)} => ~Has(out.val, "response")
           /\ include = JBool(TRUE) =>
                 Get(out.val, "response") = Get(backend[1].value, "response")

\* The backend returned an answer to a call that did not ask for it.
C10_Witness ==
    /\ response # <<>>
    /\ invoked = <<"ai">>
    /\ ~Has(Args, "include_ai_response")
    /\ backend # <<>> /\ backend[1].kind = "resolve"
    /\ Has(backend[1].value, "response")

\* autorag_ai_search has been answered after its backend call resolved to
\* an object.
AiSearchAnswered ==
    /\ response # <<>>
    /\ invoked = <<"ai">>
    /\ backend # <<>>
    /\ backend[1].kind = "resolve"
    /\ backend[1].value.type = "object"

\* The payload the client reads out of the text of the result.
Output == JSONParse(Text.s).val

\* The fields of the backend's result.
NextPage == Get(backend[1].value, "next_page")
HasMore == Get(backend[1].value, "has_more")

\* C11: for autorag_ai_search, a resolved backend call whose next_page is a
\* string, the empty string included, gives an output whose nextCursor
\* equals that next_page, whatever include_ai_response is.
C11_NextCursorIsNextPage ==
    (AiSearchAnswered /\ NextPage.type = "string")
    => Get(Output, "nextCursor") = NextPage

\* C12: for autorag_ai_search, the output has a nextCursor when the
\* backend's has_more is true and has none when has_more is false.
C12_NextCursorIffHasMore ==
    AiSearchAnswered
    => /\ HasMore = JBool(TRUE) => Has(Output, "nextCursor")
       /\ HasMore = JBool(FALSE) => ~Has(Output, "nextCursor")

\* The tool called by name, and the payload of the backend call it issued.
Called(name) == calls # <<>> /\ Name = JStr(name)
Payload == calls[1].params

\* C13: the aiSearch payload of autorag_ai_search carries the cursor
\* argument with the value supplied, and no cursor field when the
\* arguments have none.
C13_CursorPassedThrough ==
    Called("autorag_ai_search")
    => /\ calls[1].op = "aiSearch"
       /\ Has(Args, "cursor") =>
             Has(Payload, "cursor") /\ Get(Payload, "cursor") = Get(Args, "cursor")
       /\ ~Has(Args, "cursor") => ~Has(Payload, "cursor")

\* autorag_ai_search was called with an empty cursor.
C13_Witness ==
    /\ Called("autorag_ai_search")
    /\ Get(Args, "cursor") = JStr("")

\* The tools/list request has been answered; its entries.
Listed == response # <<>> /\ Method = JStr("tools/list") /\ Carries(Resp, "result")
Entries == Get(Get(Resp, "result"), "tools").items
Properties(entry) == Get(Get(entry, "inputSchema"), "properties")

\* C14: the search payloads of autorag_basic_search and
\* autorag_rewrite_search have no cursor, whatever the arguments are, and of
\* the schemas tools/list advertises only that of autorag_ai_search
\* declares cursor.
C14_OnlyAiSearchPaginates ==
    /\ (Called("autorag_basic_search") \/ Called("autorag_rewrite_search"))
          => ~Has(Payload, "cursor")
    /\ Listed =>
          \A i \in 1..Len(Entries) :
              Has(Properties(Entries[i]), "cursor")
                  <=> Get(Entries[i], "name") = JStr("autorag_ai_search")

\* autorag_basic_search was called with a cursor.
C14_Witness ==
    /\ Called("autorag_basic_search")
    /\ Get(Args, "cursor") = JStr("c1")

\* C15: every search payload of autorag_basic_search has rewrite_query
\* false, also when the arguments carry rewrite_query: true.
C15_BasicNeverRewrites ==
    Called("autorag_basic_search")
    => Get(Payload, "rewrite_query") = JBool(FALSE)

\* autorag_basic_search was called with rewrite_query: true.
C15_Witness ==
    /\ Called("autorag_basic_search")
    /\ Get(Args, "rewrite_query") = JBool(TRUE)

\* C16: the payload of autorag_rewrite_search and of autorag_ai_search has
\* rewrite_query true when the argument is absent and the supplied boolean
\* when it is present.
C16_RewriteDefaultsToTrue ==
    (Called("autorag_rewrite_search") \/ Called("autorag_ai_search"))
    => /\ ~Has(Args, "rewrite_query") => Get(Payload, "rewrite_query") = JBool(TRUE)
       /\ Get(Args, "rewrite_query").type = "boolean" =>
             Get(Payload, "rewrite_query") = Get(Args, "rewrite_query")

\* autorag_rewrite_search was called with rewrite_query: false.
C16_Witness ==
    /\ Called("autorag_rewrite_search")
    /\ Get(Args, "rewrite_query") = JBool(FALSE)

\* C17: the payload of each of the three tools has
\* ranking_options.score_threshold 0.5 when the argument is absent and the
\* supplied value when it is present.
C17_ScoreThresholdDefault ==
    calls # <<>>
    => LET sent == Get(Get(Payload, "ranking_options"), "score_threshold")
       IN  /\ Name \in {JStr("autorag_basic_search"), JStr("autorag_rewrite_search"),
                         JStr("autorag_ai_search")}
           /\ ~Has(Args, "score_threshold") => sent = JNum("0.5")
           /\ Has(Args, "score_threshold") => sent = Get(Args, "score_threshold")

\* A tool was called with score_threshold: 0.
C17_Witness ==
    /\ calls # <<>>
    /\ Get(Args, "score_threshold") = JNum("0")

\* The names of the fields a descriptor declares without .optional().
NotOptional(schema) ==
    {schema.shape[i][1] : i \in {j \in 1..Len(schema.shape) : schema.shape[j][2].kind # "optional"}}

\* required of the compiled schema lists the fields of the descriptor that
\* are not optional, and so it is in every object descriptor below it.
RECURSIVE RequiredIffNotOptional(_, _)
RequiredIffNotOptional(schema, compiled) ==
    LET required == Get(compiled, "required")
    IN  /\ required.type = "array"
        /\ {required.items[i].s : i \in 1..Len(required.items)} = NotOptional(schema)
        /\ \A i \in 1..Len(schema.shape) :
              LET key == schema.shape[i][1]
                  field == schema.shape[i][2]
                  object == IF field.kind = "optional" THEN field.inner[1] ELSE field
              IN  object.kind = "object"
                    => RequiredIffNotOptional(object, Get(Get(compiled, "properties"), key))

\* C18: in the schema zodToJsonSchema compiles from an object descriptor, a
\* field is in required exactly when it is declared without .optional(),
\* whatever its shape (string, number, boolean, record, nested object,
\* union) and at every nesting level.
C18_RequiredIffNotOptional ==
    \A i \in 1..Len(added) :
        \A e \in {Lookup(tools, JStr(added[i].name))} :
            (\A j \in i + 1..Len(added) : added[j].name # added[i].name)
            => RequiredIffNotOptional(added[i].shape, e[1].inputSchema)

\* C19: for every field of every registered tool, the description in the
\* schema tools/list advertises is the description declared for the field,
\* for required and for optional fields alike.
C19_DescriptionsAdvertised ==
    (Listed /\ Len(Entries) = Len(added))
    => \A i \in 1..Len(added) :
          \A j \in 1..Len(added[i].shape.shape) :
              LET key == added[i].shape.shape[j][1]
                  declared == added[i].shape.shape[j][2].description
              IN  /\ Get(Entries[i], "name") = JStr(added[i].name)
                  /\ Get(Get(Properties(Entries[i]), key), "description") = declared

\* The registrations that introduce a name, and the registration a name
\* was last made with.
Introductions == {i \in 1..Len(added) : \A j \in 1..i - 1 : added[j].name # added[i].name}
Last(name) ==
    added[CHOOSE i \in 1..Len(added) :
              /\ added[i].name = name
              /\ \A j \in i + 1..Len(added) : added[j].name # name]

\* C20: after any sequence of addTool calls, tools/list has one entry for
\* each distinct name, in the order the names were first registered, and
\* each entry has the description and schema, and the registry the handler,
\* of the last registration of its name.
C20_ListedInRegistrationOrder ==
    Listed
    => /\ Len(Entries) = Cardinality({added[i].name : i \in 1..Len(added)})
       /\ \A i \in Introductions :
             LET k == Cardinality({j \in Introductions : j <= i})
                 last == Last(added[i].name)
             IN  /\ Get(Entries[k], "name") = JStr(added[i].name)
                 /\ Get(Entries[k], "description") = JStr(last.description)
                 /\ Get(Entries[k], "inputSchema") = zodToJsonSchema(last.shape)
                 /\ tools[k].name = added[i].name
                 /\ tools[k].handler = last.handler

\* A name was registered, then another, then the first again with another
\* definition, and the tools were listed.
C20_Witness ==
    /\ Listed
    /\ Len(added) >= 3
    /\ added[1].name # added[2].name
    /\ added[3].name = added[1].name
    /\ added[3].description # added[1].description

\* C21 as stated: each invocation of a tool handler issues exactly one
\* backend call, never zero and never more than one.
C21_Original ==
    (invoked # <<>> /\ pc = "done") => Len(calls) = 1

\* C21 amended: a handler invoked with arguments that are neither absent
\* nor null issues exactly one backend call, which settles once, whether it
\* resolves, rejects or throws; no request issues more than one.
C21_OneBackendCall ==
    /\ Len(calls) <= 1
    /\ Len(backend) <= Len(calls)
    /\ (invoked # <<>> /\ ~Nullish(Args))
          => /\ Len(invoked) = 1
             /\ Len(calls) = 1
             /\ pc = "done" => Len(backend) = 1

\* A handler called without a query was answered after its backend call
\* rejected.
C21_Witness ==
    /\ pc = "done"
    /\ invoked # <<>>
    /\ Args.type = "object" /\ ~Has(Args, "query")
    /\ Len(calls) = 1
    /\ backend # <<>> /\ backend[1].kind = "reject"

\* C25: autorag_basic_search and autorag_rewrite_search call search and
\* never aiSearch; autorag_ai_search calls aiSearch and never search.
C25_DesignatedOperation ==
    \A i \in 1..Len(calls) :
        /\ (Name = JStr("autorag_basic_search") \/ Name = JStr("autorag_rewrite_search"))
              => calls[i].op = "search"
        /\ Name = JStr("autorag_ai_search") => calls[i].op = "aiSearch"

\* autorag_rewrite_search has been answered after its backend call resolved.
C25_Witness ==
    /\ Called("autorag_rewrite_search")
    /\ response # <<>>
    /\ backend # <<>> /\ backend[1].kind = "resolve"

\* The request is one of those that do not reach a tool handler: a method
\* other than tools/call, a tools/call whose name is not registered, or a
\* tools/call with a truthy filters argument.
StopsBeforeHandler ==
    /\ request # <<>>
    /\ Req.type = "object"
    /\ \/ Method # JStr("tools/call")
       \/ /\ Params.type = "object"
          /\ \/ Name.type # "string"
             \/ Name.s \notin ToolNames
             \/ Truthy(Args) /\ Truthy(Get(Args, "filters"))

\* C26: initialize, tools/list, resources/list, prompts/list, unknown
\* methods, tools/call with an unregistered name and tools/call rejected
\* for filters complete without a handler invocation and without a backend
\* call, the lists and initialize with a result, the others with their
\* error code.
C26_NoCallWithoutHandler ==
    StopsBeforeHandler
    => /\ invoked = <<>>
       /\ calls = <<>>
       /\ backend = <<>>
       /\ pc = "done"
       /\ response # <<>>
       /\ Method \in SupportedMethods \ {JStr("tools/call")} => Carries(Resp, "result")
       /\ Method \notin SupportedMethods => ErrorCode = JNum("-32601")
       /\ Method = JStr("tools/call") => ErrorCode \in {JNum("-32601"), JNum("-32602")}

\* A tools/call for an unregistered tool with a query and no filters has
\* been answered.
C26_Witness ==
    /\ response # <<>>
    /\ Method = JStr("tools/call")
    /\ Name = JStr("no_such_tool")
    /\ Get(Args, "query") = JStr("q")
    /\ ~Has(Args, "filters")

\* C27: a tools/call that names an unregistered tool and carries a filters
\* argument is answered by error -32601, not -32602.
C27_LookupBeforeFilters ==
    (/\ response # <<>>
     /\ Method = JStr("tools/call")
     /\ Params.type = "object"
     /\ ~CallsRegisteredTool
     /\ Has(Args, "filters"))
    => /\ ErrorCode = JNum("-32601")
       /\ ErrorCode # JNum("-32602")
       /\ ErrorText # JStr("Invalid params")

\* A tools/call without a name and with a filters object has been answered.
C27_Witness ==
    /\ response # <<>>
    /\ Method = JStr("tools/call")
    /\ Params.type = "object" /\ ~Has(Params, "name")
    /\ Get(Args, "filters").type = "object"

\* C24: for every object descriptor, the keys of properties in the compiled
\* schema are the names of the descriptor's fields: every declared field
\* has an entry, a union field and an optional field of any inner shape
\* included.
C24_EveryFieldHasProperty ==
    \A i \in 1..Len(added) :
        \A e \in {Lookup(tools, JStr(added[i].name))} :
            (\A j \in i + 1..Len(added) : added[j].name # added[i].name)
            => LET declared == added[i].shape.shape
                   properties == Get(e[1].inputSchema, "properties")
               IN  /\ properties.type = "object"
                   /\ {properties.fields[k][1] : k \in 1..Len(properties.fields)}
                        = {declared[k][1] : k \in 1..Len(declared)}

\* C23: every request handed to handleRequest is eventually answered, and
\* by one response, provided its backend call settles: a request never
\* stays suspended, a request that is not suspended has its one HTTP
\* response (the serialized return value of handleRequest unless the body is
\* null), and a response once given is not replaced.
C23_EveryRequestAnswered ==
    /\ (request # <<>>) ~> (pc = "done" /\ Len(http) = 1)
    /\ [](request # <<>> /\ pc # "awaiting"
            => /\ pc = "done"
               /\ Len(http) = 1
               /\ ~Nullish(Req) => /\ Len(response) = 1
                                    /\ http[1].status = 200
                                    /\ http[1].body.type = "string")
    /\ [][http # <<>> => http' \in {http, <<>>}]_vars

\* autorag_basic_search was suspended on its backend call and has been
\* answered with status 200.
C23_Witness ==
    /\ pc = "done"
    /\ invoked = <<"basic">>
    /\ backend # <<>> /\ backend[1].kind = "resolve"
    /\ http # <<>> /\ http[1].status = 200

\* The invocation of fetch for body b when it is the only one, its backend
\* call having had the outcomes given (none yet, or one).
Alone(b, outcomes) ==
    IF outcomes = <<>> THEN Begin(b, <<>>)
    ELSE IF outcomes[1].kind = "throw" THEN Begin(b, <<outcomes[1].value>>)
    ELSE Resume(Begin(b, <<>>), outcomes[1])

====
